---- MODULE Spec2Model ----
(***************************************************************************)
(* A model of the DNSCrypt client of willnix/dnscrypt: the padding codec   *)
(* and the TXT unescape codec of types.go, and GetValidCert and            *)
(* ExchangeEncrypted of protocol.go.                                       *)
(*                                                                         *)
(* Bytes are the integers 0..255 and a byte slice is a sequence of them.   *)
(* Go indexes from 0 and the model keeps the code's indexes: At(s, k) is   *)
(* s[k] and Slice(s, a, b) is s[a:b].  A Go panic (an index or a slice     *)
(* bound out of range) is the outcome "panic" of the operation.            *)
(***************************************************************************)
EXTENDS Integers, Sequences, FiniteSets, TLC

VARIABLES
    \* the padding codec (types.go, addPadding / removePadding)
    padIn,        \* the byte slice handed to the codec
    padPc,        \* "start" | "added" | "removed" | "stripped"
    padRand,      \* what rand.Int gave addPadding: [ok, amount]
    padAdded,     \* what addPadding returned
    padRemoved,   \* what removePadding returned
    \* the TXT unescape codec (types.go, unpackTXT)
    txt,          \* the argument of unpackTXT
    up,           \* the locals of unpackTXT: unpackedTXT, i, j and where it stands
    upRet,        \* what unpackTXT returned
    \* GetValidCert (protocol.go)
    answers,      \* in.Answer, the answer section of the reply to the TXT query
    providerKey,  \* the provider's long-term public signing key
    gPc,          \* where GetValidCert stands
    gIdx,         \* the index of the answer the scan is at
    bincert,      \* the local bincert: <<>> is nil, <<c>> points to c
    bincertFields,\* the local bincertFields
    now,          \* <<>>, or <<t>> once time.Now().Unix() was read as t
    gRet,         \* what GetValidCert returned
    \* ExchangeEncrypted (protocol.go)
    xIn,          \* the arguments: [msg, bincertFields]
    xPc,          \* where ExchangeEncrypted stands
    queryHeader,  \* the local queryHeader
    clientSK,     \* the ephemeral secret key
    query,        \* serializedDNSQuery, then padded
    nonce,        \* the local nonce, a [24]byte
    sealed,       \* <<>>, or <<[nonce, box]>>: the nonce box.Seal was given and its result
    wire,         \* the datagrams the socket sent
    reads,        \* the number of reads of the socket
    reply,        \* <<>>, or <<r>>: the datagram the read returned
    opened,       \* <<>>, or <<[nonce, ok]>>: the nonce box.Open was given and its verdict
    dnsResponse,  \* the local dnsResponse
    xRet          \* what ExchangeEncrypted returned

padVars == <<padIn, padPc, padRand, padAdded, padRemoved>>
txtVars == <<txt, up, upRet>>
gvcVars == <<answers, providerKey, gPc, gIdx, bincert, bincertFields, now, gRet>>
exVars == <<xIn, xPc, queryHeader, clientSK, query, nonce, sealed, wire, reads, reply,
            opened, dnsResponse, xRet>>
vars == <<padVars, txtVars, gvcVars, exVars>>

----------------------------------------------------------------------------
(* Byte slices *)

Byte == 0..255

At(s, k) == s[k + 1]

Slice(s, a, b) == SubSeq(s, a + 1, b)

Zeros(n) == [k \in 1..n |-> 0]

\* All sequences over S of length at most n.
SeqsUpTo(S, n) == UNION {[1..k -> S] : k \in 0..n}

Last(s) == s[Len(s)]

----------------------------------------------------------------------------
(* types.go: the padding codec *)

\* The first byte of ISO/IEC 7816-4 padding.
PadMarker == 128

\* rand.Int(rand.Reader, big.NewInt(255)) draws from [0, 255).
PadRandLimit == 255

PaddingAmounts == 0..(PadRandLimit - 1)

NoResult == [status |-> "none", bytes |-> <<>>, err |-> ""]

\* bytes.TrimRight(s, "\x00")
TrimRightZeros(s) ==
    LET keep == {k \in 1..Len(s) : s[k] # 0}
        end == IF keep = {} THEN 0 ELSE CHOOSE k \in keep : \A m \in keep : m <= k
    IN Slice(s, 0, end)

\* addPadding with the marker written to the last padding byte, not the first.
addPaddingMarkerLast(unpadded, randOk, paddingAmount) ==
    IF ~randOk
    THEN [status |-> "err", bytes |-> <<>>, err |-> "rand"]
    ELSE LET padding == Zeros(paddingAmount)
         IN IF Len(padding) = 0
            THEN [status |-> "panic", bytes |-> <<>>, err |-> "index out of range"]
            ELSE [status |-> "ok",
                  bytes |-> unpadded \o [padding EXCEPT ![Len(padding)] = PadMarker],
                  err |-> ""]

\* addPadding with rand.Int having drawn paddingAmount (randOk) or failed.
\* padding[0] = 0x80 is an index out of range on a slice of length 0.
addPadding(unpadded, randOk, paddingAmount) ==
    IF ~randOk
    THEN [status |-> "err", bytes |-> <<>>, err |-> "rand"]
    ELSE LET padding == Zeros(paddingAmount)
         IN IF Len(padding) = 0
            THEN [status |-> "panic", bytes |-> <<>>, err |-> "index out of range"]
            ELSE [status |-> "ok",
                  bytes |-> unpadded \o [padding EXCEPT ![1] = PadMarker],
                  err |-> ""]

\* removePadding: unpadded[len(unpadded)-1] is an index out of range on an
\* empty slice.
removePadding(padded) ==
    LET unpadded == TrimRightZeros(padded)
    IN IF Len(unpadded) = 0
       THEN [status |-> "panic", bytes |-> <<>>, err |-> "index out of range"]
       ELSE IF At(unpadded, Len(unpadded) - 1) # PadMarker
            THEN [status |-> "err", bytes |-> <<>>, err |-> "Invalid padding!"]
            ELSE [status |-> "ok",
                  bytes |-> Slice(unpadded, 0, Len(unpadded) - 1),
                  err |-> ""]

----------------------------------------------------------------------------
(* types.go: the TXT unescape codec *)

Backslash == 92

\* A digit test that leaves out '0'.
IsDigitNonZero(b) == b \in 49..57

\* unicode.IsDigit of a byte: '0'..'9'.
IsDigit(b) == b \in 48..57

\* strconv.Atoi of three ASCII digits.
Atoi3(d1, d2, d3) == (d1 - 48) * 100 + (d2 - 48) * 10 + (d3 - 48)

\* A conversion that clamps instead of truncating.
ToByteClamped(v) == IF v > 255 THEN 255 ELSE v

\* byte(v) of a non-negative int.
ToByte(v) == v % 256

\* unpackTXT's locals on entry: unpackedTXT := make([]byte, len(txt)), j, i := 0.
UnpackStart(t) ==
    [unpackedTXT |-> Zeros(Len(t)), i |-> 0, j |-> 0, at |-> "loop", err |-> ""]

\* A write that moves the write index on by two.
UnpackWriteSkipping(s, b, jNext) ==
    IF s.i >= Len(s.unpackedTXT)
    THEN [s EXCEPT !.at = "panic", !.err = "index out of range"]
    ELSE [s EXCEPT !.unpackedTXT[s.i + 1] = b, !.j = jNext, !.i = s.i + 2]

\* unpackedTXT[i] = b; a write past the buffer is a panic.
UnpackWrite(s, b, jNext) ==
    IF s.i >= Len(s.unpackedTXT)
    THEN [s EXCEPT !.at = "panic", !.err = "index out of range"]
    ELSE [s EXCEPT !.unpackedTXT[s.i + 1] = b, !.j = jNext, !.i = s.i + 1]

\* One pass of the loop body (the loop's condition j < len(txt) holds),
\* with the post statement i++ unless the body left the loop.
UnpackBody(t, s) ==
    IF At(t, s.j) = Backslash
    THEN LET j == s.j + 1
         IN IF j = Len(t)
            THEN [s EXCEPT !.j = j, !.at = "break"]
            ELSE IF /\ j + 2 < Len(t)
                    /\ IsDigit(At(t, j))
                    /\ IsDigit(At(t, j + 1))
                    /\ IsDigit(At(t, j + 2))
                 THEN UnpackWrite(s, ToByte(Atoi3(At(t, j), At(t, j + 1), At(t, j + 2))),
                                  j + 3)
                 ELSE CASE At(t, j) = 110 -> UnpackWrite(s, 10, j + 1)
                        [] At(t, j) = 116 -> UnpackWrite(s, 9, j + 1)
                        [] At(t, j) = 114 -> UnpackWrite(s, 13, j + 1)
                        [] OTHER -> [s EXCEPT !.j = j + 1, !.at = "return",
                                              !.err = "Invalid slash escaped character found!"]
    ELSE UnpackWrite(s, At(t, s.j), s.j + 1)

\* What unpackTXT returns from where its locals stand: the whole buffer with
\* the error, or unpackedTXT[0:i].
UnpackResult(s) ==
    CASE s.at = "panic" -> [status |-> "panic", bytes |-> <<>>, err |-> s.err]
      [] s.err # "" -> [status |-> "err", bytes |-> s.unpackedTXT, err |-> s.err]
      [] OTHER -> [status |-> "ok", bytes |-> Slice(s.unpackedTXT, 0, s.i), err |-> ""]

UnpackLeftLoop(t, s) == s.at # "loop" \/ s.j >= Len(t)

\* The loop: the test and a pass, until the loop is left.  The passes are
\* taken sixteen at a time, which keeps the evaluation shallow.
UnpackPass(t, s) == IF UnpackLeftLoop(t, s) THEN s ELSE UnpackBody(t, s)

UnpackPass4(t, s) == UnpackPass(t, UnpackPass(t, UnpackPass(t, UnpackPass(t, s))))

UnpackPass16(t, s) == UnpackPass4(t, UnpackPass4(t, UnpackPass4(t, UnpackPass4(t, s))))

RECURSIVE UnpackRun(_, _)
UnpackRun(t, s) ==
    IF UnpackLeftLoop(t, s) THEN s ELSE UnpackRun(t, UnpackPass16(t, s))

unpackTXT(t) == UnpackResult(UnpackRun(t, UnpackStart(t)))

----------------------------------------------------------------------------
(* The padding codec as a machine: addPadding on a byte slice and           *)
(* removePadding on what it returned (the round trip), or removePadding on  *)
(* the slice itself (as ExchangeEncrypted calls it on a decrypted reply).   *)

MaxPadLen == 3

\* A zero byte, the marker and another byte.
PadBytes == {0, PadMarker, 65}

PadInputs == SeqsUpTo(PadBytes, MaxPadLen)

PadIdle ==
    /\ padIn = <<>>
    /\ padPc = "idle"
    /\ padRand = [ok |-> FALSE, amount |-> 0]
    /\ padAdded = NoResult
    /\ padRemoved = NoResult

PadInit ==
    /\ padIn \in PadInputs
    /\ padPc = "start"
    /\ padRand = [ok |-> FALSE, amount |-> 0]
    /\ padAdded = NoResult
    /\ padRemoved = NoResult

AddPaddingCall ==
    /\ padPc = "start"
    /\ \E r \in {[ok |-> FALSE, amount |-> 0]}
                \cup {[ok |-> TRUE, amount |-> n] : n \in PaddingAmounts} :
          /\ padRand' = r
          /\ padAdded' = addPadding(padIn, r.ok, r.amount)
    /\ padPc' = "added"
    /\ UNCHANGED <<padIn, padRemoved>>

RemoveAddedPadding ==
    /\ padPc = "added"
    /\ padAdded.status = "ok"
    /\ padRemoved' = removePadding(padAdded.bytes)
    /\ padPc' = "removed"
    /\ UNCHANGED <<padIn, padRand, padAdded>>

RemovePaddingCall ==
    /\ padPc = "start"
    /\ padRemoved' = removePadding(padIn)
    /\ padPc' = "stripped"
    /\ UNCHANGED <<padIn, padRand, padAdded>>

PadNext ==
    \/ AddPaddingCall /\ UNCHANGED <<txtVars, gvcVars, exVars>>
    \/ RemoveAddedPadding /\ UNCHANGED <<txtVars, gvcVars, exVars>>
    \/ RemovePaddingCall /\ UNCHANGED <<txtVars, gvcVars, exVars>>

----------------------------------------------------------------------------
(* unpackTXT as a machine: one step per pass of its loop, then the return. *)

MaxTxtLen == 4

\* \ 0 5 9 n r t x
TxtAlphabet == {Backslash, 48, 53, 57, 110, 114, 116, 120}

Digits == 48..57

\* Every \DDD, alone, after a plain byte, and before one.
TxtEscapes ==
    UNION {{<<Backslash, d1, d2, d3>>,
            <<120, Backslash, d1, d2, d3>>,
            <<Backslash, d1, d2, d3, 120>>} : d1 \in Digits, d2 \in Digits, d3 \in Digits}

TxtInputs == SeqsUpTo(TxtAlphabet, MaxTxtLen) \cup TxtEscapes

TxtIdle ==
    /\ txt = <<>>
    /\ up = [UnpackStart(<<>>) EXCEPT !.at = "idle"]
    /\ upRet = NoResult

TxtInit ==
    /\ txt \in TxtInputs
    /\ up = UnpackStart(txt)
    /\ upRet = NoResult

UnpackIterate ==
    /\ upRet.status = "none"
    /\ up.at = "loop"
    /\ ~UnpackLeftLoop(txt, up)
    /\ up' = UnpackBody(txt, up)
    /\ UNCHANGED <<txt, upRet>>

UnpackReturn ==
    /\ upRet.status = "none"
    /\ up.at # "idle"
    /\ UnpackLeftLoop(txt, up)
    /\ upRet' = UnpackResult(up)
    /\ UNCHANGED <<txt, up>>

TxtNext ==
    \/ UnpackIterate /\ UNCHANGED <<padVars, gvcVars, exVars>>
    \/ UnpackReturn /\ UNCHANGED <<padVars, gvcVars, exVars>>

----------------------------------------------------------------------------
(* Fixed-width integers.  TLC's integers are 32 bits wide, so a uint32 is   *)
(* kept as two and a uint64 or int64 as four 16-bit limbs, most significant *)
(* first; an int64 is in two's complement.                                  *)

LimbBase == 256 * 256

\* binary.BigEndian.Uint16 / Uint32 of 2 / 4 bytes.
U16FromBytes(b) == b[1] * 256 + b[2]

U32FromBytes(b) == <<b[1] * 256 + b[2], b[3] * 256 + b[4]>>

\* uint64(x) of a uint32 x.
U64FromU32(x) == <<0, 0, x[1], x[2]>>

\* nowSigned >= 0 of an int64, and uint64(nowSigned).
I64NonNegative(n) == n[1] < LimbBase \div 2

U64FromI64(n) == n

\* a < b of two uint64.
LtU64(a, b) ==
    \E k \in 1..4 : a[k] < b[k] /\ \A m \in 1..(k - 1) : a[m] = b[m]

----------------------------------------------------------------------------
(* types.go: the wire types, read by binary.Read in big-endian order *)

MagicCertSize == 4
SignatureSize == 64
SignedDataSize == 52
ServerPublicKeySize == 32
MagicQuerySize == 8
SerialSize == 4

\* binary.Size of signedBincert: magic, two uint16, signature, signed data.
SignedBincertSize == MagicCertSize + 2 + 2 + SignatureSize + SignedDataSize

\* SignedBincertFields{}
ZeroSignedBincertFields ==
    [ServerPublicKey |-> Zeros(ServerPublicKeySize),
     MagicQuery |-> Zeros(MagicQuerySize),
     Serial |-> Zeros(SerialSize),
     TSBegin |-> <<0, 0>>,
     TSEnd |-> <<0, 0>>]

\* binary.Read(buf, binary.BigEndian, bincert): io.ReadFull of the struct's
\* size, then the fields in order; bytes after the struct are left unread.
ReadSignedBincert(b) ==
    IF Len(b) < SignedBincertSize
    THEN [ok |-> FALSE, err |-> IF Len(b) = 0 THEN "EOF" ELSE "unexpected EOF",
          value |-> <<>>]
    ELSE [ok |-> TRUE, err |-> "",
          value |-> <<[MagicCert |-> Slice(b, 0, 4),
                       VersionMajor |-> U16FromBytes(Slice(b, 4, 6)),
                       VersionMinor |-> U16FromBytes(Slice(b, 6, 8)),
                       Signature |-> Slice(b, 8, 8 + SignatureSize),
                       SignedData |-> Slice(b, 8 + SignatureSize, SignedBincertSize)]>>]

\* binary.Read(buf, binary.BigEndian, &bincertFields) on the 52 signed bytes.
ReadSignedBincertFields(d) ==
    [ServerPublicKey |-> Slice(d, 0, 32),
     MagicQuery |-> Slice(d, 32, 40),
     Serial |-> Slice(d, 40, 44),
     TSBegin |-> U32FromBytes(Slice(d, 44, 48)),
     TSEnd |-> U32FromBytes(Slice(d, 48, 52))]

----------------------------------------------------------------------------
(* protocol.go: GetValidCert *)

\* "DNSC"
certificateMagic == <<68, 78, 83, 67>>

\* The one major version GetValidCert supports.
SupportedVersionMajor == 1

\* Ed25519, idealised: a key pair is named by its public key, and the one
\* signature that verifies under a public key for a message is the one the
\* pair's holder computes.  The signature binds every byte of the message
\* and the key.
Ed25519Sign(key, message) == Slice(key, 0, SignatureSize - Len(message)) \o message

\* A verification that accepts every signature.
Ed25519VerifyAny(key, message, sig) == TRUE

\* ed25519.Verify(providerKey, bincert.SignedData[:], bincert.Signature[:])
Ed25519Verify(key, message, sig) == sig = Ed25519Sign(key, message)

\* new(signedBincert)
ZeroSignedBincert ==
    [MagicCert |-> Zeros(MagicCertSize),
     VersionMajor |-> 0,
     VersionMinor |-> 0,
     Signature |-> Zeros(SignatureSize),
     SignedData |-> Zeros(SignedDataSize)]

\* One pass of the scan's loop body on an answer: it returns, panics, or goes
\* on; `set` says whether the pass assigned bincert, and to what.
ScanAnswer(answer) ==
    IF ~answer.isTXT
    THEN [kind |-> "return", err |-> "First answer not a TXT record",
          set |-> FALSE, bincert |-> <<>>]
    ELSE IF Len(answer.Txt) = 0
    THEN [kind |-> "panic", err |-> "index out of range", set |-> FALSE, bincert |-> <<>>]
    ELSE IF Len(answer.Txt[1]) < 5
    THEN [kind |-> "panic", err |-> "slice bounds out of range",
          set |-> FALSE, bincert |-> <<>>]
    ELSE IF Slice(answer.Txt[1], 0, 5) = certificateMagic
    THEN [kind |-> "return", err |-> "TXT record is not a DNSC certificate",
          set |-> FALSE, bincert |-> <<>>]
    ELSE LET unpacked == unpackTXT(answer.Txt[1])
         IN IF unpacked.status # "ok"
            THEN [kind |-> IF unpacked.status = "panic" THEN "panic" ELSE "return",
                  err |-> unpacked.err, set |-> FALSE, bincert |-> <<>>]
            ELSE LET read == ReadSignedBincert(unpacked.bytes)
                 IN IF ~read.ok
                    THEN [kind |-> "return", err |-> read.err,
                          set |-> TRUE, bincert |-> <<ZeroSignedBincert>>]
                    ELSE IF read.value[1].VersionMajor # SupportedVersionMajor
                         THEN [kind |-> "continue", err |-> "",
                               set |-> TRUE, bincert |-> <<>>]
                         ELSE [kind |-> "continue", err |-> "",
                               set |-> TRUE, bincert |-> read.value]

\* A return that hands back, with the error, the fields decoded so far.
ReturnErrorPartial(e) == [status |-> "err", fields |-> bincertFields, err |-> e]

\* A validity check that compares the low 32 bits of the clock.
ValidityErrorTruncated(nowSigned, fields) ==
    IF ~I64NonNegative(nowSigned)
    THEN "Time traveler alert! Certificates can only be valid from 1970 onwards."
    ELSE LET n == <<0, 0, nowSigned[3], nowSigned[4]>>
         IN IF LtU64(n, U64FromU32(fields.TSBegin))
            THEN "Certificate is not yet valid"
            ELSE IF LtU64(U64FromU32(fields.TSEnd), n)
                 THEN "Certificate is no longer valid"
                 ELSE ""

\* The validity check on the clock value nowSigned: the error it returns with,
\* or "" when the certificate is valid.
ValidityError(nowSigned, fields) ==
    IF ~I64NonNegative(nowSigned)
    THEN "Time traveler alert! Certificates can only be valid from 1970 onwards."
    ELSE LET n == U64FromI64(nowSigned)
         IN IF LtU64(n, U64FromU32(fields.TSBegin))
            THEN "Certificate is not yet valid"
            ELSE IF LtU64(U64FromU32(fields.TSEnd), n)
                 THEN "Certificate is no longer valid"
                 ELSE ""

NoReturn == [status |-> "none", fields |-> ZeroSignedBincertFields, err |-> ""]

ReturnError(e) == [status |-> "err", fields |-> ZeroSignedBincertFields, err |-> e]

ReturnPanic(e) == [status |-> "panic", fields |-> ZeroSignedBincertFields, err |-> e]

----------------------------------------------------------------------------
(* The environment of GetValidCert: the TXT answers a server may give and   *)
(* the values the clock may have.                                           *)

\* The presentation form miekg/dns gives a TXT string (quoted in the comment
\* on unpackTXT): \t, \r, \n for tab, carriage return and line feed, a
\* backslash before a backslash or a quotation mark, \DDD for a byte below
\* 32 or above 127.
EscapeByte(b) ==
    CASE b = 9 -> <<Backslash, 116>>
      [] b = 13 -> <<Backslash, 114>>
      [] b = 10 -> <<Backslash, 110>>
      [] b \in {Backslash, 34} -> <<Backslash, b>>
      [] b < 32 \/ b > 127 ->
            <<Backslash, 48 + (b \div 100), 48 + ((b \div 10) % 10), 48 + (b % 10)>>
      [] OTHER -> <<b>>

RECURSIVE PackTXT(_)
PackTXT(bytes) ==
    CASE Len(bytes) = 0 -> <<>>
      [] Len(bytes) = 1 -> EscapeByte(bytes[1])
      [] OTHER -> LET half == Len(bytes) \div 2
                  IN PackTXT(Slice(bytes, 0, half)) \o PackTXT(Slice(bytes, half, Len(bytes)))

Repeat(b, n) == [k \in 1..n |-> b]

\* The provider's key pair and another one, each named by its public key.
ProviderKey == Repeat(80, 32)

OtherKey == Repeat(79, 32)

\* The 52 signed bytes: server public key, client magic, serial, validity
\* start and end.
SignedPayload(serial, tsBegin, tsEnd) ==
    Repeat(83, ServerPublicKeySize) \o Repeat(81, MagicQuerySize)
        \o <<0, 0, 0, serial>> \o tsBegin \o tsEnd

\* The 124 bytes of a certificate signed by `signer`.
CertBytes(magic, major, signer, payload) ==
    magic \o <<0, major, 0, 0>> \o Ed25519Sign(signer, payload) \o payload

TXTAnswer(strings) == [isTXT |-> TRUE, Txt |-> strings]

CertAnswer(magic, major, signer, payload) ==
    TXTAnswer(<<PackTXT(CertBytes(magic, major, signer, payload))>>)

\* Validity timestamps: 0, 5, 9, 2^32 - 1.
TS0 == <<0, 0, 0, 0>>
TS5 == <<0, 0, 0, 5>>
TS9 == <<0, 0, 0, 9>>
TSMax == <<255, 255, 255, 255>>
\* 2^31
TSHalf == <<128, 0, 0, 0>>

\* Version 1, rightly signed, valid from 5 to 9.
AnswerV1 == CertAnswer(certificateMagic, 1, ProviderKey, SignedPayload(1, TS5, TS9))
\* Version 1, rightly signed, valid over the whole uint32 range.
AnswerV1Wide == CertAnswer(certificateMagic, 1, ProviderKey, SignedPayload(2, TS0, TSMax))
\* Version 2, rightly signed.
AnswerV2 == CertAnswer(certificateMagic, 2, ProviderKey, SignedPayload(3, TS5, TS9))
\* Version 1, signed by another key.
AnswerForged == CertAnswer(certificateMagic, 1, OtherKey, SignedPayload(4, TS0, TSMax))
\* Version 1, rightly signed, with the end of validity before its start.
AnswerInverted == CertAnswer(certificateMagic, 1, ProviderKey, SignedPayload(5, TS9, TS5))
\* Version 1, rightly signed, valid from 2^31 to 2^32 - 1.
AnswerV1Late == CertAnswer(certificateMagic, 1, ProviderKey, SignedPayload(7, TSHalf, TSMax))
\* Version 1, signed by another key, with the end of validity before its
\* start: no clock is within its window.
AnswerForgedInverted ==
    CertAnswer(certificateMagic, 1, OtherKey, SignedPayload(8, TS9, TS5))
\* Version 1, rightly signed, under the magic "XNSC".
AnswerNoMagic == CertAnswer(<<88, 78, 83, 67>>, 1, ProviderKey, SignedPayload(6, TS5, TS9))
\* A record of another type.
AnswerNotTXT == [isTXT |-> FALSE, Txt |-> <<>>]
\* "DNSC\x": an escape unpackTXT rejects.
AnswerBadEscape == TXTAnswer(<<certificateMagic \o <<Backslash, 120>>>>)
\* "DNSC" and the version, and nothing after.
AnswerTruncated == TXTAnswer(<<PackTXT(certificateMagic \o <<0, 1, 0, 0>>)>>)
\* "DNSC", four characters.
AnswerShortText == TXTAnswer(<<certificateMagic>>)
\* A TXT record with no string.
AnswerNoString == TXTAnswer(<<>>)

AnswerPool ==
    {AnswerV1, AnswerV1Wide, AnswerV2, AnswerForged, AnswerInverted, AnswerV1Late,
     AnswerForgedInverted, AnswerNoMagic,
     AnswerNotTXT, AnswerBadEscape, AnswerTruncated, AnswerShortText, AnswerNoString}

MaxAnswers == 2

\* time.Now().Unix(): 0, 4, 5, 6, 9, 10, 2^31 - 1, 2^31, 2^32 - 1, 2^32,
\* 2^32 + 5, 2^32 + 9, 2^63 - 1, -1, -2^63 + 5.
ClockValues ==
    {<<0, 0, 0, 0>>, <<0, 0, 0, 4>>, <<0, 0, 0, 5>>, <<0, 0, 0, 6>>, <<0, 0, 0, 9>>,
     <<0, 0, 0, 10>>, <<0, 0, 32767, 65535>>, <<0, 0, 32768, 0>>,
     <<0, 0, 65535, 65535>>, <<0, 1, 0, 0>>, <<0, 1, 0, 5>>, <<0, 1, 0, 9>>,
     <<32767, 65535, 65535, 65535>>, <<65535, 65535, 65535, 65535>>,
     <<32768, 0, 0, 5>>}

----------------------------------------------------------------------------
(* GetValidCert as a machine: the exchange, one step per answer of the      *)
(* scan, the check after the scan, the signature check, the decoding of the *)
(* fields and the validity check.                                           *)

GvcIdle ==
    /\ answers = <<>>
    /\ providerKey = <<>>
    /\ gPc = "idle"
    /\ gIdx = 0
    /\ bincert = <<>>
    /\ bincertFields = ZeroSignedBincertFields
    /\ now = <<>>
    /\ gRet = NoReturn

GvcInit ==
    /\ answers \in SeqsUpTo(AnswerPool, MaxAnswers)
    /\ providerKey = ProviderKey
    /\ gPc = "exchange"
    /\ gIdx = 0
    /\ bincert = <<>>
    /\ bincertFields = ZeroSignedBincertFields
    /\ now = <<>>
    /\ gRet = NoReturn

\* dns.Exchange fails.
ExchangeFails ==
    /\ gPc = "exchange"
    /\ gPc' = "done"
    /\ gRet' = ReturnError("dns.Exchange")
    /\ UNCHANGED <<answers, providerKey, gIdx, bincert, bincertFields, now>>

\* dns.Exchange returns the reply; an empty answer section is an error.
ExchangeReplies ==
    /\ gPc = "exchange"
    /\ IF Len(answers) = 0
       THEN /\ gPc' = "done"
            /\ gRet' = ReturnError("No answer to pubkey DNS request")
       ELSE /\ gPc' = "scan"
            /\ gRet' = gRet
    /\ UNCHANGED <<answers, providerKey, gIdx, bincert, bincertFields, now>>

\* A pass of the loop that leaves it at the first supported certificate.
ScanStepFirstWins ==
    /\ gPc = "scan"
    /\ gIdx < Len(answers)
    /\ LET r == ScanAnswer(At(answers, gIdx))
       IN CASE r.kind = "return" ->
                 /\ gPc' = "done"
                 /\ gRet' = ReturnError(r.err)
                 /\ bincert' = IF r.set THEN r.bincert ELSE bincert
                 /\ UNCHANGED gIdx
            [] r.kind = "panic" ->
                 /\ gPc' = "done"
                 /\ gRet' = ReturnPanic(r.err)
                 /\ UNCHANGED <<gIdx, bincert>>
            [] OTHER ->
                 /\ bincert' = r.bincert
                 /\ gIdx' = IF r.bincert = <<>> THEN gIdx + 1 ELSE Len(answers)
                 /\ UNCHANGED <<gPc, gRet>>
    /\ UNCHANGED <<answers, providerKey, bincertFields, now>>

\* One pass of the loop over in.Answer.
ScanStep ==
    /\ gPc = "scan"
    /\ gIdx < Len(answers)
    /\ LET r == ScanAnswer(At(answers, gIdx))
       IN CASE r.kind = "return" ->
                 /\ gPc' = "done"
                 /\ gRet' = ReturnError(r.err)
                 /\ bincert' = IF r.set THEN r.bincert ELSE bincert
                 /\ UNCHANGED gIdx
            [] r.kind = "panic" ->
                 /\ gPc' = "done"
                 /\ gRet' = ReturnPanic(r.err)
                 /\ UNCHANGED <<gIdx, bincert>>
            [] OTHER ->
                 /\ bincert' = r.bincert
                 /\ gIdx' = gIdx + 1
                 /\ UNCHANGED <<gPc, gRet>>
    /\ UNCHANGED <<answers, providerKey, bincertFields, now>>

\* The loop is over: have we found a supported certificate?
ScanEnd ==
    /\ gPc = "scan"
    /\ gIdx >= Len(answers)
    /\ IF bincert = <<>>
       THEN /\ gPc' = "done"
            /\ gRet' = ReturnError("No certificate for supported crypto constructions found")
       ELSE /\ gPc' = "verify"
            /\ gRet' = gRet
    /\ UNCHANGED <<answers, providerKey, gIdx, bincert, bincertFields, now>>

\* A step that goes on to the fields without checking the signature.
VerifySignatureSkipped ==
    /\ gPc = "verify"
    /\ gPc' = "fields"
    /\ UNCHANGED <<answers, providerKey, gIdx, bincert, bincertFields, now, gRet>>

\* check signature
VerifySignature ==
    /\ gPc = "verify"
    /\ IF Ed25519Verify(providerKey, bincert[1].SignedData, bincert[1].Signature)
       THEN /\ gPc' = "fields"
            /\ gRet' = gRet
       ELSE /\ gPc' = "done"
            /\ gRet' = ReturnError("Invalid certificate Signature")
    /\ UNCHANGED <<answers, providerKey, gIdx, bincert, bincertFields, now>>

\* parse inner structure
ReadFields ==
    /\ gPc = "fields"
    /\ bincertFields' = ReadSignedBincertFields(bincert[1].SignedData)
    /\ gPc' = "time"
    /\ UNCHANGED <<answers, providerKey, gIdx, bincert, now, gRet>>

\* is the certificate valid?
CheckValidity ==
    /\ gPc = "time"
    /\ \E nowSigned \in ClockValues :
          /\ now' = <<nowSigned>>
          /\ LET e == ValidityError(nowSigned, bincertFields)
             IN gRet' = IF e = ""
                        THEN [status |-> "ok", fields |-> bincertFields, err |-> ""]
                        ELSE ReturnError(e)
    /\ gPc' = "done"
    /\ UNCHANGED <<answers, providerKey, gIdx, bincert, bincertFields>>

GvcNext ==
    \/ ExchangeFails /\ UNCHANGED <<padVars, txtVars, exVars>>
    \/ ExchangeReplies /\ UNCHANGED <<padVars, txtVars, exVars>>
    \/ ScanStep /\ UNCHANGED <<padVars, txtVars, exVars>>
    \/ ScanEnd /\ UNCHANGED <<padVars, txtVars, exVars>>
    \/ VerifySignature /\ UNCHANGED <<padVars, txtVars, exVars>>
    \/ ReadFields /\ UNCHANGED <<padVars, txtVars, exVars>>
    \/ CheckValidity /\ UNCHANGED <<padVars, txtVars, exVars>>

----------------------------------------------------------------------------
(* protocol.go: ExchangeEncrypted *)

\* resolverMagic = [8]byte{0x72, 0x36, 0x66, 0x6e, 0x76, 0x57, 0x6a, 0x38}
resolverMagic == <<114, 54, 102, 110, 118, 87, 106, 56>>

dnsMaxSizeUDP == 65536 - 20 - 8

ClientNonceSize == 12
NonceSize == 24
ResponseHeaderSize == 32

\* box.Overhead: the length of the authenticator box.Seal puts before the
\* ciphertext.
BoxOverhead == 16

\* copy(dst, src): the first min(len(dst), len(src)) elements of src over dst.
Copy(dst, src) == [k \in 1..Len(dst) |-> IF k <= Len(src) THEN src[k] ELSE dst[k]]

\* X25519, idealised: the public key of a secret key, and the key two pairs
\* share, which each side computes from its secret and the other's public key.
PublicKeyOf(sk) == [k \in 1..Len(sk) |-> sk[k] - 32]

SharedKey(peerPK, sk) == {peerPK, PublicKeyOf(sk)}

\* XSalsa20-Poly1305, idealised: a box names the key, the nonce and the
\* plaintext it was sealed with, and opens only under that key and nonce.
NoBox == [kind |-> "empty", key |-> {}, nonce |-> <<>>, pt |-> <<>>, len |-> 0]

JunkBox(n) == [kind |-> "junk", key |-> {}, nonce |-> <<>>, pt |-> <<>>, len |-> n]

\* box.Seal(nil, message, &nonce, peersPublicKey, privateKey)
BoxSeal(message, n, peerPK, sk) ==
    [kind |-> "box", key |-> SharedKey(peerPK, sk), nonce |-> n, pt |-> message,
     len |-> Len(message) + BoxOverhead]

\* box.Open(nil, box, &nonce, peersPublicKey, privateKey)
BoxOpen(b, n, peerPK, sk) ==
    IF b.kind = "box" /\ b.nonce = n /\ b.key = SharedKey(peerPK, sk)
    THEN [ok |-> TRUE, pt |-> b.pt]
    ELSE [ok |-> FALSE, pt |-> <<>>]

\* dns.Msg, as far as the exchange goes: the id and the flag bits of a
\* message with no records.  dns.Msg{} is the empty message.
EmptyMsg == [Id |-> 0, Bits |-> 0]

\* msg.PackBuffer(nil): the 12-byte header.
PackMsg(m) ==
    <<m.Id \div 256, m.Id % 256, m.Bits \div 256, m.Bits % 256>> \o Zeros(8)

\* responseMsg.Unpack(dnsResponse): fewer than 12 bytes are no header, and
\* a header that counts records is followed by none.
UnpackMsg(b) ==
    IF Len(b) < 12
    THEN [ok |-> FALSE, msg |-> EmptyMsg, err |-> "dns: overflow unpacking"]
    ELSE IF Slice(b, 4, 12) # Zeros(8)
         THEN [ok |-> FALSE, msg |-> EmptyMsg, err |-> "dns: overflow unpacking"]
         ELSE [ok |-> TRUE,
               msg |-> [Id |-> b[1] * 256 + b[2], Bits |-> b[3] * 256 + b[4]],
               err |-> ""]

\* binary.Write(dnscryptQuery, binary.BigEndian, queryHeader)
WriteQueryHeader(h) == h.ClientMagic \o h.ClientPublicKey \o h.ClientNonce

\* binary.Read(responseHeaderBytes, binary.BigEndian, &responseHeader) on
\* the 32 bytes p[:32].
ReadResponseHeader(b) ==
    [ServerMagic |-> Slice(b, 0, 8),
     ClientNonce |-> Slice(b, 8, 20),
     ServerNonce |-> Slice(b, 20, 32)]

\* build nonce: <nonce> := <client_nonce><12 zeros>
QueryNonce(n, h) == Copy(n, Slice(h.ClientNonce, 0, ClientNonceSize) \o Zeros(16))

\* A response nonce that takes only the client half from the header.
ResponseNonceClientHalf(n, rh) == Copy(n, rh.ClientNonce)

\* copy(nonce[:], append(responseHeader.ClientNonce[:], responseHeader.ServerNonce[:]...))
ResponseNonce(n, rh) == Copy(n, rh.ClientNonce \o rh.ServerNonce)

\* A datagram received: the first bytes, up to the 32 of a response header,
\* as bytes, and what follows them as a box.  n is its length, p[:32] the
\* start of the zeroed receive buffer it was read into.
ReplyLength(r) ==
    LET n == Len(r.hdr) + r.body.len
    IN IF n > dnsMaxSizeUDP THEN dnsMaxSizeUDP ELSE n

ReplyHead(r) == r.hdr \o Zeros(ResponseHeaderSize - Len(r.hdr))

XNoReturn == [status |-> "none", msg |-> EmptyMsg, err |-> ""]

XReturnError(e) == [status |-> "err", msg |-> EmptyMsg, err |-> e]

XReturnPanic(e) == [status |-> "panic", msg |-> EmptyMsg, err |-> e]

----------------------------------------------------------------------------
(* The environment of ExchangeEncrypted: the random source, the server and  *)
(* whoever else can send to the socket.                                     *)

ServerSK == Repeat(115, 32)

ClientSecretKeys == {Repeat(99, 32)}

\* The fields of the certificate valid from 5 to 9.
CertFields == ReadSignedBincertFields(SignedPayload(1, TS5, TS9))

Queries == {[Id |-> 513, Bits |-> 256], EmptyMsg}

\* What rand.Read may fill the client nonce half with.
ClientNonces == {Repeat(7, ClientNonceSize), Zeros(ClientNonceSize)}

ServerNonces == {Repeat(9, ClientNonceSize), Zeros(ClientNonceSize)}

OtherNonce == Repeat(8, ClientNonceSize)

\* The padding lengths drawn in the exchange: none, one byte, three bytes.
ExchangePaddingAmounts == {0, 1, 3}

\* The plaintexts a server may seal in answer to the query m: the answer
\* rightly padded, not padded, nothing, padding alone, zero bytes.
ResponsePlaintexts(m) ==
    {PackMsg(m) \o <<PadMarker, 0, 0>>, PackMsg(m), <<>>, <<PadMarker>>, <<0, 0>>}

ResponseHeaderBytes(magic, clientHalf, serverHalf) == magic \o clientHalf \o serverHalf

\* The datagrams that may arrive, given the datagrams sent: from the server,
\* which has the client's public key and nonce half once it has the query,
\* replies under the right or a wrong magic, echoing the client's nonce half
\* or another, sealed under the nonce of their header or under the query's
\* nonce; from anyone, junk and datagrams shorter than a header.
Replies(sent, m) ==
    LET served ==
          UNION {
            LET clientPK == Slice(d.hdr, 8, 40)
                sentHalf == Slice(d.hdr, 40, 52)
            IN UNION {
                 LET head == ResponseHeaderBytes(magic, half, srv)
                 IN {[hdr |-> head,
                      body |-> BoxSeal(pt, half \o srv, clientPK, ServerSK)] :
                        pt \in ResponsePlaintexts(m)}
                    \cup {[hdr |-> head,
                           body |-> BoxSeal(PackMsg(m) \o <<PadMarker>>,
                                            sentHalf \o Zeros(ClientNonceSize),
                                            clientPK, ServerSK)]}
                 : magic \in {resolverMagic, Repeat(0, 8)},
                   half \in {sentHalf, OtherNonce},
                   srv \in ServerNonces}
            : d \in {sent[k] : k \in 1..Len(sent)}}
        junk ==
          {[hdr |-> ResponseHeaderBytes(resolverMagic, OtherNonce, OtherNonce),
            body |-> b] : b \in {JunkBox(20), NoBox}}
        short ==
          {[hdr |-> Slice(ResponseHeaderBytes(resolverMagic, OtherNonce, OtherNonce), 0, n),
            body |-> NoBox] : n \in {0, 7, 8, 31}}
    IN served \cup junk \cup short

----------------------------------------------------------------------------
(* ExchangeEncrypted as a machine, one step per call it makes *)

ExIdle ==
    /\ xIn = [msg |-> EmptyMsg, bincertFields |-> ZeroSignedBincertFields]
    /\ xPc = "idle"
    /\ queryHeader = [ClientMagic |-> Zeros(8), ClientPublicKey |-> Zeros(32),
                      ClientNonce |-> Zeros(ClientNonceSize)]
    /\ clientSK = <<>>
    /\ query = <<>>
    /\ nonce = Zeros(NonceSize)
    /\ sealed = <<>>
    /\ wire = <<>>
    /\ reads = 0
    /\ reply = <<>>
    /\ opened = <<>>
    /\ dnsResponse = <<>>
    /\ xRet = XNoReturn

ExInit ==
    /\ xIn \in {[msg |-> m, bincertFields |-> CertFields] : m \in Queries}
    /\ xPc = "nonce"
    /\ queryHeader = [ClientMagic |-> xIn.bincertFields.MagicQuery,
                      ClientPublicKey |-> Zeros(32),
                      ClientNonce |-> Zeros(ClientNonceSize)]
    /\ clientSK = <<>>
    /\ query = <<>>
    /\ nonce = Zeros(NonceSize)
    /\ sealed = <<>>
    /\ wire = <<>>
    /\ reads = 0
    /\ reply = <<>>
    /\ opened = <<>>
    /\ dnsResponse = <<>>
    /\ xRet = XNoReturn

\* rand.Read(queryHeader.ClientNonce[:12])
GenerateNonce ==
    /\ xPc = "nonce"
    /\ \/ /\ xPc' = "done"
          /\ xRet' = XReturnError("rand.Read")
          /\ UNCHANGED queryHeader
       \/ /\ \E half \in ClientNonces :
                queryHeader' = [queryHeader EXCEPT !.ClientNonce = half]
          /\ xPc' = "keygen"
          /\ UNCHANGED xRet
    /\ UNCHANGED <<xIn, clientSK, query, nonce, sealed, wire, reads, reply, opened,
                   dnsResponse>>

\* box.GenerateKey(rand.Reader)
GenerateKey ==
    /\ xPc = "keygen"
    /\ \/ /\ xPc' = "done"
          /\ xRet' = XReturnError("box.GenerateKey")
          /\ UNCHANGED <<queryHeader, clientSK>>
       \/ /\ \E sk \in ClientSecretKeys :
                /\ clientSK' = sk
                /\ queryHeader' = [queryHeader EXCEPT !.ClientPublicKey = PublicKeyOf(sk)]
          /\ xPc' = "pack"
          /\ UNCHANGED xRet
    /\ UNCHANGED <<xIn, query, nonce, sealed, wire, reads, reply, opened, dnsResponse>>

\* msg.PackBuffer(nil)
PackQuery ==
    /\ xPc = "pack"
    /\ \/ /\ xPc' = "done"
          /\ xRet' = XReturnError("dns: pack")
          /\ UNCHANGED query
       \/ /\ query' = PackMsg(xIn.msg)
          /\ xPc' = "pad"
          /\ UNCHANGED xRet
    /\ UNCHANGED <<xIn, queryHeader, clientSK, nonce, sealed, wire, reads, reply, opened,
                   dnsResponse>>

\* add padding
PadQuery ==
    /\ xPc = "pad"
    /\ \E r \in {[ok |-> FALSE, amount |-> 0]}
                \cup {[ok |-> TRUE, amount |-> n] : n \in ExchangePaddingAmounts} :
          LET padded == addPadding(query, r.ok, r.amount)
          IN CASE padded.status = "ok" ->
                    /\ query' = padded.bytes
                    /\ xPc' = "seal"
                    /\ UNCHANGED xRet
               [] padded.status = "panic" ->
                    /\ xPc' = "done"
                    /\ xRet' = XReturnPanic(padded.err)
                    /\ UNCHANGED query
               [] OTHER ->
                    /\ xPc' = "done"
                    /\ xRet' = XReturnError(padded.err)
                    /\ query' = padded.bytes
    /\ UNCHANGED <<xIn, queryHeader, clientSK, nonce, sealed, wire, reads, reply, opened,
                   dnsResponse>>

\* build nonce and seal the query
SealQuery ==
    /\ xPc = "seal"
    /\ nonce' = QueryNonce(nonce, queryHeader)
    /\ sealed' = <<[nonce |-> nonce',
                    box |-> BoxSeal(query, nonce', xIn.bincertFields.ServerPublicKey,
                                    clientSK)]>>
    /\ xPc' = "dial"
    /\ UNCHANGED <<xIn, queryHeader, clientSK, query, wire, reads, reply, opened,
                   dnsResponse, xRet>>

\* net.Dial("udp", serverAddress)
Dial ==
    /\ xPc = "dial"
    /\ \/ /\ xPc' = "done"
          /\ xRet' = XReturnError("dial")
       \/ /\ xPc' = "send"
          /\ UNCHANGED xRet
    /\ UNCHANGED <<xIn, queryHeader, clientSK, query, nonce, sealed, wire, reads, reply,
                   opened, dnsResponse>>

\* send query: binary.Write(conn, ...), whose error is not looked at.
SendQuery ==
    /\ xPc = "send"
    /\ \/ wire' = Append(wire, [hdr |-> WriteQueryHeader(queryHeader),
                                body |-> sealed[1].box])
       \/ UNCHANGED wire
    /\ xPc' = "recv"
    /\ UNCHANGED <<xIn, queryHeader, clientSK, query, nonce, sealed, reads, reply, opened,
                   dnsResponse, xRet>>

\* receive: bufio.NewReader(conn).Read(p)
ReceiveReply ==
    /\ xPc = "recv"
    /\ reads' = reads + 1
    /\ \/ /\ xPc' = "done"
          /\ xRet' = XReturnError("read")
          /\ UNCHANGED reply
       \/ /\ \E r \in Replies(wire, xIn.msg) : reply' = <<r>>
          /\ xPc' = "header"
          /\ UNCHANGED xRet
    /\ UNCHANGED <<xIn, queryHeader, clientSK, query, nonce, sealed, wire, opened,
                   dnsResponse>>

\* A header check that lets every magic through.
CheckHeaderAccepting ==
    /\ xPc = "header"
    /\ xPc' = "open"
    /\ UNCHANGED <<xIn, queryHeader, clientSK, query, nonce, sealed, wire, reads, reply,
                   opened, dnsResponse, xRet>>

\* parse response header and check magic bytes
CheckHeader ==
    /\ xPc = "header"
    /\ IF ReadResponseHeader(ReplyHead(reply[1])).ServerMagic # resolverMagic
       THEN /\ xPc' = "done"
            /\ xRet' = XReturnError("Magic bytes do not match")
       ELSE /\ xPc' = "open"
            /\ UNCHANGED xRet
    /\ UNCHANGED <<xIn, queryHeader, clientSK, query, nonce, sealed, wire, reads, reply,
                   opened, dnsResponse>>

\* encryptedResponse := p[32:n], then decrypt the reply with info from the
\* header.  p[32:n] with n < 32 is a slice bound out of range.
OpenResponse ==
    /\ xPc = "open"
    /\ IF ReplyLength(reply[1]) < ResponseHeaderSize
       THEN /\ xPc' = "done"
            /\ xRet' = XReturnPanic("slice bounds out of range")
            /\ UNCHANGED <<nonce, opened, dnsResponse>>
       ELSE LET responseHeader == ReadResponseHeader(ReplyHead(reply[1]))
                n == ResponseNonce(nonce, responseHeader)
                o == BoxOpen(reply[1].body, n, xIn.bincertFields.ServerPublicKey, clientSK)
            IN /\ nonce' = n
               /\ opened' = <<[nonce |-> n, ok |-> o.ok]>>
               /\ IF o.ok
                  THEN /\ dnsResponse' = o.pt
                       /\ xPc' = "unpad"
                       /\ UNCHANGED xRet
                  ELSE /\ xPc' = "done"
                       /\ xRet' = XReturnError("Could not decrypt response")
                       /\ UNCHANGED dnsResponse
    /\ UNCHANGED <<xIn, queryHeader, clientSK, query, sealed, wire, reads, reply>>

\* strip padding from the decrypted dns response
StripPadding ==
    /\ xPc = "unpad"
    /\ LET r == removePadding(dnsResponse)
       IN CASE r.status = "ok" ->
                 /\ dnsResponse' = r.bytes
                 /\ xPc' = "parse"
                 /\ UNCHANGED xRet
            [] r.status = "panic" ->
                 /\ xPc' = "done"
                 /\ xRet' = XReturnPanic(r.err)
                 /\ UNCHANGED dnsResponse
            [] OTHER ->
                 /\ xPc' = "done"
                 /\ xRet' = XReturnError(r.err)
                 /\ dnsResponse' = r.bytes
    /\ UNCHANGED <<xIn, queryHeader, clientSK, query, nonce, sealed, wire, reads, reply,
                   opened>>

\* parse dns response
ParseResponse ==
    /\ xPc = "parse"
    /\ LET r == UnpackMsg(dnsResponse)
       IN xRet' = IF r.ok
                  THEN [status |-> "ok", msg |-> r.msg, err |-> ""]
                  ELSE XReturnError(r.err)
    /\ xPc' = "done"
    /\ UNCHANGED <<xIn, queryHeader, clientSK, query, nonce, sealed, wire, reads, reply,
                   opened, dnsResponse>>

ExNext ==
    \/ GenerateNonce /\ UNCHANGED <<padVars, txtVars, gvcVars>>
    \/ GenerateKey /\ UNCHANGED <<padVars, txtVars, gvcVars>>
    \/ PackQuery /\ UNCHANGED <<padVars, txtVars, gvcVars>>
    \/ PadQuery /\ UNCHANGED <<padVars, txtVars, gvcVars>>
    \/ SealQuery /\ UNCHANGED <<padVars, txtVars, gvcVars>>
    \/ Dial /\ UNCHANGED <<padVars, txtVars, gvcVars>>
    \/ SendQuery /\ UNCHANGED <<padVars, txtVars, gvcVars>>
    \/ ReceiveReply /\ UNCHANGED <<padVars, txtVars, gvcVars>>
    \/ CheckHeader /\ UNCHANGED <<padVars, txtVars, gvcVars>>
    \/ OpenResponse /\ UNCHANGED <<padVars, txtVars, gvcVars>>
    \/ StripPadding /\ UNCHANGED <<padVars, txtVars, gvcVars>>
    \/ ParseResponse /\ UNCHANGED <<padVars, txtVars, gvcVars>>

----------------------------------------------------------------------------
(* Specifications *)

InitPad == PadInit /\ TxtIdle /\ GvcIdle /\ ExIdle

SpecPad == InitPad /\ [][PadNext]_vars

InitTxt == TxtInit /\ PadIdle /\ GvcIdle /\ ExIdle

SpecTxt == InitTxt /\ [][TxtNext]_vars

InitCert == GvcInit /\ PadIdle /\ TxtIdle /\ ExIdle

SpecCert == InitCert /\ [][GvcNext]_vars

InitExchange == ExInit /\ PadIdle /\ TxtIdle /\ GvcIdle

SpecExchange == InitExchange /\ [][ExNext]_vars

\* Either call, from its start to its return.
InitCalls == InitCert \/ InitExchange

CallsNext == GvcNext \/ ExNext

SpecCalls == InitCalls /\ [][CallsNext]_vars

----------------------------------------------------------------------------
(* Properties of the padding codec *)

\* The bytes b such that stripping b's trailing zero bytes leaves a slice
\* that ends in the marker.
EndsInMarkerThenZeros(b) ==
    \E k \in 1..Len(b) : b[k] = 128 /\ \A m \in (k + 1)..Len(b) : b[m] = 0

\* C5: for every byte sequence b and every padding length in 1..254,
\* addPadding succeeds and removePadding of its result succeeds and returns
\* exactly b.
PaddingRoundTrip ==
    /\ (padPc \in {"added", "removed"} /\ padRand.ok /\ padRand.amount \in 1..254)
          => /\ padAdded.status = "ok"
             /\ Len(padAdded.bytes) = Len(padIn) + padRand.amount
    /\ (padPc = "removed" /\ padRand.amount \in 1..254)
          => /\ padRemoved.status = "ok"
             /\ padRemoved.bytes = padIn

\* C5 witness: a sequence that itself ends in the marker and a zero byte went
\* through the round trip with the longest padding.
PaddingRoundTripReached ==
    /\ padPc = "removed"
    /\ padIn = <<65, 128, 0>>
    /\ padRand.amount = 254
    /\ padRemoved.bytes = <<65, 128, 0>>

\* C6 (as claimed): with a padding length of zero addPadding completes
\* normally and returns its input with no byte appended.
ZeroPaddingAppendsNothing ==
    (padPc = "added" /\ padRand.ok /\ padRand.amount = 0)
        => /\ padAdded.status = "ok"
           /\ padAdded.bytes = padIn

\* C7 (as claimed): removePadding returns the invalid-padding error, and
\* does not terminate abnormally, for every input that has no marker at its
\* end once the trailing zero bytes are stripped, the inputs that are empty
\* or all zero included.
RemovePaddingRejectsWithError ==
    (padPc = "stripped" /\ ~EndsInMarkerThenZeros(padIn))
        => /\ padRemoved.status = "err"
           /\ padRemoved.err = "Invalid padding!"

----------------------------------------------------------------------------
(* Properties of unpackTXT *)

AsciiDigit(b) == b >= 48 /\ b <= 57

\* unpackTXT is about to decode a backslash followed by three digits.
AtEscapeDDD ==
    /\ upRet.status = "none"
    /\ up.at = "loop"
    /\ up.j + 3 < Len(txt)
    /\ At(txt, up.j) = 92
    /\ AsciiDigit(At(txt, up.j + 1))
    /\ AsciiDigit(At(txt, up.j + 2))
    /\ AsciiDigit(At(txt, up.j + 3))

\* The decimal value of the three digits after the backslash at j.
EscapeDDD ==
    100 * (At(txt, up.j + 1) - 48) + 10 * (At(txt, up.j + 2) - 48)
        + (At(txt, up.j + 3) - 48)

HasBadEscape(t) ==
    \E p \in 1..(Len(t) - 1) :
        /\ t[p] = 92
        /\ t[p + 1] \notin {110, 116, 114}
        /\ ~(/\ p + 3 <= Len(t)
             /\ AsciiDigit(t[p + 1])
             /\ AsciiDigit(t[p + 2])
             /\ AsciiDigit(t[p + 3]))

UnpackNeverOutgrowsInput ==
    /\ up.at # "idle" =>
          /\ up.i <= up.j
          /\ up.i <= Len(up.unpackedTXT)
          /\ Len(up.unpackedTXT) = Len(txt)
          /\ up.at # "panic"
    /\ upRet.status # "none" =>
          /\ upRet.status \in {"ok", "err"}
          /\ Len(upRet.bytes) <= Len(txt)

\* C15 witness: unpackTXT decoded an input with an escape into fewer bytes
\* than the input has, the write index behind the read index.
UnpackedShorterThanInput ==
    /\ upRet.status = "ok"
    /\ \E k \in 1..Len(txt) : txt[k] = Backslash
    /\ up.i >= 1
    /\ up.i < up.j
    /\ Len(upRet.bytes) = up.i
    /\ Len(upRet.bytes) < Len(txt)

----------------------------------------------------------------------------
(* Properties of GetValidCert *)

\* What the answers of the pool decode to: whether an answer carries the 124
\* decodable bytes of a certificate structure, and the structure.
DecodedAnswer(a) ==
    IF a.isTXT /\ Len(a.Txt) >= 1 /\ Len(a.Txt[1]) >= 5
    THEN LET u == unpackTXT(a.Txt[1])
         IN IF u.status = "ok" /\ Len(u.bytes) >= 124
            THEN ReadSignedBincert(u.bytes).value
            ELSE <<>>
    ELSE <<>>

DecodedPool == [a \in AnswerPool |-> DecodedAnswer(a)]

WellFormedAnswer(a) == DecodedPool[a] # <<>>

CertOf(a) == DecodedPool[a][1]

\* Numbers as big-endian byte strings of one length, and their order.
NumLt(a, b) == \E k \in 1..Len(a) : a[k] < b[k] /\ \A m \in 1..(k - 1) : a[m] = b[m]

NumLeq(a, b) == a = b \/ NumLt(a, b)

\* a + 1, for a not all 0xff.
NumSucc(a) ==
    LET k == CHOOSE i \in 1..Len(a) : a[i] # 255 /\ \A m \in (i + 1)..Len(a) : a[m] = 255
    IN [i \in 1..Len(a) |-> IF i < k THEN a[i] ELSE IF i = k THEN a[i] + 1 ELSE 0]

\* The eight bytes of a clock value, and of the validity start and end found
\* at bytes 44..47 and 48..51 of a signed payload.
ClockBytes(n) ==
    <<n[1] \div 256, n[1] % 256, n[2] \div 256, n[2] % 256,
      n[3] \div 256, n[3] % 256, n[4] \div 256, n[4] % 256>>

StartBytes(payload) == <<0, 0, 0, 0>> \o SubSeq(payload, 45, 48)

EndBytes(payload) == <<0, 0, 0, 0>> \o SubSeq(payload, 49, 52)

ClockNonNegative(n) == ClockBytes(n)[1] < 128

U32Bytes(x) == <<x[1] \div 256, x[1] % 256, x[2] \div 256, x[2] % 256>>

\* C1: GetValidCert returns success only with a retained certificate that
\* came from an answer, has major version 1, carries the provider's signature
\* over its 52 signed bytes and is valid at a non-negative clock value; the
\* fields returned are the ones laid out in those 52 bytes.
SuccessOnlyForValidatedCert ==
    gRet.status = "ok" =>
        /\ bincert # <<>>
        /\ \E k \in 1..Len(answers) :
              WellFormedAnswer(answers[k]) /\ CertOf(answers[k]) = bincert[1]
        /\ bincert[1].VersionMajor = 1
        /\ Len(bincert[1].SignedData) = 52
        /\ bincert[1].Signature = Ed25519Sign(providerKey, bincert[1].SignedData)
        /\ now # <<>>
        /\ ClockNonNegative(now[1])
        /\ NumLeq(StartBytes(bincert[1].SignedData), ClockBytes(now[1]))
        /\ NumLeq(ClockBytes(now[1]), EndBytes(bincert[1].SignedData))
        /\ gRet.fields.ServerPublicKey = SubSeq(bincert[1].SignedData, 1, 32)
        /\ gRet.fields.MagicQuery = SubSeq(bincert[1].SignedData, 33, 40)
        /\ gRet.fields.Serial = SubSeq(bincert[1].SignedData, 41, 44)
        /\ U32Bytes(gRet.fields.TSBegin) = SubSeq(bincert[1].SignedData, 45, 48)
        /\ U32Bytes(gRet.fields.TSEnd) = SubSeq(bincert[1].SignedData, 49, 52)

\* C1 witness: the certificate valid from 5 to 9 was returned at time 9.
ValidCertReturned ==
    /\ gRet.status = "ok"
    /\ answers = <<AnswerV1>>
    /\ now = <<(<<0, 0, 0, 9>>)>>
    /\ gRet.fields.Serial = <<0, 0, 0, 1>>

\* The scan went through every answer and the loop was left.
ScanOver == gPc \notin {"exchange", "scan", "idle"} /\ gIdx = Len(answers)

VersionIndexes(v) ==
    {k \in 1..Len(answers) :
        WellFormedAnswer(answers[k]) /\ CertOf(answers[k]).VersionMajor = v}

\* C2 (as claimed): with exactly one well-formed version-1 and one
\* well-formed version-2 certificate in the answers, in either order, the
\* scan ends with the version-1 certificate retained and never with "no
\* supported certificate".
VersionOneRetainedInEitherOrder ==
    (/\ Len(answers) = 2
     /\ Cardinality(VersionIndexes(1)) = 1
     /\ Cardinality(VersionIndexes(2)) = 1
     /\ ScanOver)
        => /\ bincert # <<>>
           /\ \A k \in VersionIndexes(1) : bincert[1] = CertOf(answers[k])
           /\ gRet.err # "No certificate for supported crypto constructions found"

\* C3: with several well-formed version-1 certificates in the answers the
\* scan does not stop at the first: the signature check is reached only
\* after the loop went through every answer, and the certificate retained
\* for it is the version-1 certificate last in answer order.
LastVersionOneRetained ==
    Cardinality(VersionIndexes(1)) >= 2 =>
        /\ (gPc \in {"verify", "fields", "time"} \/ now # <<>>)
              => (ScanOver /\ bincert # <<>>)
        /\ ScanOver =>
              /\ bincert # <<>> <=> Len(answers) \in VersionIndexes(1)
              /\ bincert # <<>> =>
                    bincert[1] = CertOf(answers[Len(answers)])

\* C3 witness: of two version-1 certificates the second one, serial 2, is
\* the one the signature check is about to see.
SecondOfTwoRetained ==
    /\ answers = <<AnswerV1, AnswerV1Wide>>
    /\ gPc = "verify"
    /\ SubSeq(bincert[1].SignedData, 41, 44) = <<0, 0, 0, 2>>

\* C4: the validity check is inclusive at both ends and compares without
\* wrapping: it succeeds exactly for a non-negative clock value n with
\* start <= n <= end; n = start and n = end validate, n = end + 1 fails as
\* expired (2^32 included), n < start fails as not yet valid, a negative
\* clock value fails.
ValidityWindowInclusive ==
    now # <<>> =>
        LET n == ClockBytes(now[1])
            start == StartBytes(bincert[1].SignedData)
            end == EndBytes(bincert[1].SignedData)
        IN /\ gRet.status \in {"ok", "err"}
           /\ gRet.status = "ok"
                 <=> (ClockNonNegative(now[1]) /\ NumLeq(start, n) /\ NumLeq(n, end))
           /\ ~ClockNonNegative(now[1]) =>
                 gRet.err = "Time traveler alert! Certificates can only be valid from 1970 onwards."
           /\ (ClockNonNegative(now[1]) /\ NumLt(n, start)) =>
                 gRet.err = "Certificate is not yet valid"
           /\ (ClockNonNegative(now[1]) /\ NumLeq(start, n) /\ NumLt(end, n)) =>
                 gRet.err = "Certificate is no longer valid"
           /\ (NumLeq(start, end) /\ n \in {start, end}) => gRet.status = "ok"
           /\ (NumLeq(start, end) /\ n = NumSucc(end)) =>
                 gRet.err = "Certificate is no longer valid"

\* C4 witness: a certificate valid up to 2^32 - 1 was found expired at 2^32.
ExpiredJustPastUint32 ==
    /\ now = <<(<<0, 1, 0, 0>>)>>
    /\ EndBytes(bincert[1].SignedData) = <<0, 0, 0, 0, 255, 255, 255, 255>>
    /\ gRet.err = "Certificate is no longer valid"

\* The text of a TXT answer begins with the four bytes "DNSC".
HasMagic(a) ==
    /\ a.isTXT
    /\ Len(a.Txt) >= 1
    /\ Len(a.Txt[1]) >= MagicCertSize
    /\ Slice(a.Txt[1], 0, MagicCertSize) = certificateMagic

\* The answers the scan has looked at: all up to the one it stands at, which
\* is the one it returned or panicked at when the call ended within the scan.
Scanned ==
    IF gPc \in {"idle", "exchange"} THEN {}
    ELSE IF gPc = "done" /\ gRet.err \in {"dns.Exchange", "No answer to pubkey DNS request"}
    THEN {}
    ELSE {k \in 1..Len(answers) : k <= gIdx + 1}

\* A TXT answer with a text of at least the five characters the magic check
\* slices, not beginning with "DNSC".
LacksMagic(a) ==
    /\ a.isTXT
    /\ Len(a.Txt) >= 1
    /\ Len(a.Txt[1]) >= 5
    /\ ~HasMagic(a)

\* C14 (as claimed): a TXT answer whose text does not begin with "DNSC"
\* ends the call with an error when the scan comes to it, so that the
\* certificate handed to the signature check always has the magic and no
\* call succeeds having scanned an answer without it.  (Texts shorter than
\* the slice the check takes are the matter of C19.)
MagicRequiredForVerification ==
    /\ gPc \in {"verify", "fields", "time"} =>
          /\ bincert[1].MagicCert = certificateMagic
          /\ \A k \in 1..Len(answers) : ~LacksMagic(answers[k])
    /\ gRet.status = "ok" => \A k \in 1..Len(answers) : ~LacksMagic(answers[k])
    /\ (gPc = "done" /\ \E k \in Scanned : LacksMagic(answers[k]))
          => gRet.status = "err"

\* The signature of the retained certificate verifies under the provider key.
RetainedSignatureValid ==
    /\ bincert # <<>>
    /\ Ed25519Verify(providerKey, bincert[1].SignedData, bincert[1].Signature)

\* C16: the fields are decoded and the clock is read only for a certificate
\* whose signature has verified; a call whose scan retained a certificate
\* with a wrong signature ends with "Invalid certificate Signature", its
\* fields never decoded and its validity window never compared, whatever
\* the window is.
SignatureCheckedBeforeFields ==
    /\ (gPc \in {"fields", "time"} \/ bincertFields # ZeroSignedBincertFields \/ now # <<>>)
          => RetainedSignatureValid
    /\ gRet.err \in {"Certificate is not yet valid", "Certificate is no longer valid",
                     "Time traveler alert! Certificates can only be valid from 1970 onwards."}
          => RetainedSignatureValid
    /\ (gPc = "done" /\ ScanOver /\ bincert # <<>> /\ ~RetainedSignatureValid) =>
          /\ gRet = ReturnError("Invalid certificate Signature")
          /\ bincertFields = ZeroSignedBincertFields
          /\ now = <<>>

\* C16 witness: the call retained the certificate signed by another key whose
\* window holds no instant, and returned the signature error.
ForgedExpiredReportedAsForged ==
    /\ gPc = "done"
    /\ ScanOver
    /\ Len(answers) >= 1
    /\ answers[Len(answers)] = AnswerForgedInverted
    /\ bincert = DecodedPool[AnswerForgedInverted]
    /\ NumLt(EndBytes(bincert[1].SignedData), StartBytes(bincert[1].SignedData))
    /\ gRet.err = "Invalid certificate Signature"

\* The text of a TXT answer is shorter than what the scan reads from it.
ShortAnswer(a) ==
    /\ a.isTXT
    /\ \/ Len(a.Txt) = 0
       \/ Len(a.Txt[1]) < 5
       \/ LET u == unpackTXT(a.Txt[1])
          IN u.status = "ok" /\ Len(u.bytes) < SignedBincertSize

ShortPool == [a \in AnswerPool |-> ShortAnswer(a)]

\* C19 (as claimed): the call that came to a TXT answer with no string, with
\* a first string of fewer than 5 characters, or with fewer decoded bytes
\* than the certificate structure, returned an error.
ShortAnswerReturnsError ==
    (/\ gPc = "done"
     /\ gIdx < Len(answers)
     /\ gIdx + 1 \in Scanned
     /\ ShortPool[At(answers, gIdx)])
        => gRet.status = "err"

----------------------------------------------------------------------------
(* Properties of ExchangeEncrypted *)

\* C10: the nonce the query is sealed with is the 12-byte client nonce half
\* of the query header, as sent, followed by 12 zero bytes; the nonce the
\* response is opened with is bytes 8..19 of the response header followed by
\* its bytes 20..31; each is 24 bytes long, and every byte of the second half
\* of the response nonce is the header's, none the query nonce's zero.
NonceConstruction ==
    /\ sealed # <<>> =>
          /\ Len(sealed[1].nonce) = 24
          /\ SubSeq(sealed[1].nonce, 1, 12) = queryHeader.ClientNonce
          /\ \A k \in 13..24 : sealed[1].nonce[k] = 0
          /\ sealed[1].box.nonce = sealed[1].nonce
          /\ \A k \in 1..Len(wire) :
                SubSeq(wire[k].hdr, 41, 52) = SubSeq(sealed[1].nonce, 1, 12)
    /\ opened # <<>> =>
          /\ Len(reply[1].hdr) = 32
          /\ Len(opened[1].nonce) = 24
          /\ SubSeq(opened[1].nonce, 1, 12) = SubSeq(reply[1].hdr, 9, 20)
          /\ \A k \in 13..24 : opened[1].nonce[k] = reply[1].hdr[k + 8]

\* C10 witness: a response was opened under the client half 7..7 followed by
\* the server half 9..9, after the query was sealed under 7..7 and zeros.
ResponseOpenedUnderBothHalves ==
    /\ opened # <<>>
    /\ opened[1].ok
    /\ sealed[1].nonce = Repeat(7, 12) \o Zeros(12)
    /\ opened[1].nonce = Repeat(7, 12) \o Repeat(9, 12)

\* The steps of a call in the order of the code, the return last.
ExOrder ==
    <<"nonce", "keygen", "pack", "pad", "seal", "dial", "send", "recv", "header",
      "open", "unpad", "parse", "done">>

ExRank(pc) == CHOOSE k \in 1..Len(ExOrder) : ExOrder[k] = pc

\* A step of the call fails: it ends the call with an error or a panic, or it
\* is the write to the socket and no datagram went out.
StepFails ==
    \/ xRet.status = "none" /\ xRet'.status \in {"err", "panic"}
    \/ xPc = "send" /\ wire' = wire

\* C11: a call sends at most one datagram and receives at most once, the
\* send before the receive; every step of the call moves forward in the
\* order of the code, so none is repeated; and a step that fails is the last
\* step of the call, no send, receive, decrypt, unpad or parse following it.
SingleRoundTripAbortsOnFailure ==
    [][/\ ExRank(xPc') > ExRank(xPc)
       /\ Len(wire') <= 1
       /\ reads' <= 1
       /\ reads' > reads => ExRank(xPc) > ExRank("send")
       /\ StepFails => xPc' = "done"]_vars

\* C13: when the datagram was not written (the call is past the write and
\* nothing is on the wire) the call has returned an error and has not
\* received nor is about to receive.
WriteFailureReturned ==
    (wire = <<>> /\ ExRank(xPc) > ExRank("send")) =>
        /\ xPc = "done"
        /\ xRet.status = "err"
        /\ reads = 0

\* The header of the datagram received, as the call reads it.
ReceivedHeader == ReadResponseHeader(ReplyHead(reply[1]))

\* C17: a response is returned only when the magic of the header received
\* was resolverMagic, the bytes after the header were a box that opened under
\* the header's 24 nonce bytes and the key shared by the call's own secret
\* key and the certificate's server public key, its plaintext had valid
\* padding, and the unpadded plaintext parsed into the message returned; the
\* steps come in that order, and under a wrong magic nothing is opened.
ResponseOnlyAfterAllChecks ==
    /\ xPc \in {"open", "unpad", "parse"} =>
          /\ ReceivedHeader.ServerMagic = resolverMagic
          /\ xRet.status = "none"
    /\ xPc \in {"unpad", "parse"} =>
          /\ opened # <<>>
          /\ opened[1].ok
          /\ opened[1].nonce = ReceivedHeader.ClientNonce \o ReceivedHeader.ServerNonce
    /\ xPc = "parse" =>
          /\ removePadding(reply[1].body.pt).status = "ok"
          /\ dnsResponse = removePadding(reply[1].body.pt).bytes
    /\ xRet.status = "ok" =>
          /\ xPc = "done"
          /\ reply # <<>>
          /\ Len(reply[1].hdr) = ResponseHeaderSize
          /\ ReceivedHeader.ServerMagic = resolverMagic
          /\ opened # <<>>
          /\ opened[1].ok
          /\ opened[1].nonce = ReceivedHeader.ClientNonce \o ReceivedHeader.ServerNonce
          /\ reply[1].body.kind = "box"
          /\ reply[1].body.nonce = opened[1].nonce
          /\ reply[1].body.key = SharedKey(xIn.bincertFields.ServerPublicKey, clientSK)
          /\ reply[1].body.key = SharedKey(queryHeader.ClientPublicKey, ServerSK)
          /\ removePadding(reply[1].body.pt).status = "ok"
          /\ dnsResponse = removePadding(reply[1].body.pt).bytes
          /\ UnpackMsg(dnsResponse).ok
          /\ xRet.msg = UnpackMsg(dnsResponse).msg
    /\ (reply # <<>> /\ ReceivedHeader.ServerMagic # resolverMagic) =>
          /\ xPc \in {"header", "done"}
          /\ opened = <<>>
          /\ dnsResponse = <<>>
          /\ xPc = "done" => xRet = XReturnError("Magic bytes do not match")

\* C17 witness: the call returned the message the server sealed, padded,
\* under the nonce of its header.
ResponseReturned ==
    /\ xPc = "done"
    /\ xRet.status = "ok"
    /\ xRet.msg = [Id |-> 513, Bits |-> 256]
    /\ reply[1].body.pt = PackMsg(xRet.msg) \o <<PadMarker, 0, 0>>
    /\ opened[1].ok

\* C18 (as claimed): a call that received a datagram shorter than the
\* response header has returned an error, whether or not the first 8 bytes
\* of the datagram are the resolver magic.
ShortReplyReturnsError ==
    (/\ xPc = "done"
     /\ reply # <<>>
     /\ ReplyLength(reply[1]) < ResponseHeaderSize)
        => xRet.status = "err"

\* C20 (as claimed): a response is opened and returned only when the client
\* nonce half in its header is the one the call sent in its query header.
EchoedClientNonceRequired ==
    /\ (opened # <<>> /\ opened[1].ok) => ReceivedHeader.ClientNonce = queryHeader.ClientNonce
    /\ xRet.status = "ok" => ReceivedHeader.ClientNonce = queryHeader.ClientNonce

----------------------------------------------------------------------------
(* Properties of both calls *)

\* C12: a return of GetValidCert that carries an error carries the all-zero
\* SignedBincertFields, and a return of ExchangeEncrypted that carries an
\* error carries the empty dns.Msg, whatever the call had decoded or
\* decrypted when it failed.
NoPartialResultOnError ==
    /\ gRet.status = "err" =>
          /\ gRet.fields = ZeroSignedBincertFields
          /\ gRet.err # ""
    /\ xRet.status = "err" =>
          /\ xRet.msg = EmptyMsg
          /\ xRet.err # ""

\* C12 witness: ExchangeEncrypted returned an error after it had decrypted a
\* response that holds the bytes of a DNS message other than the empty one.
ErrorAfterDecryption ==
    /\ xPc = "done"
    /\ xRet.status = "err"
    /\ xRet.msg = EmptyMsg
    /\ opened # <<>>
    /\ opened[1].ok
    /\ Len(reply[1].body.pt) >= 12
    /\ UnpackMsg(SubSeq(reply[1].body.pt, 1, 12)).msg # EmptyMsg

====
